---- MODULE Spec2Model ----
(***************************************************************************)
(* Persona generation backend of Personna: the test-run routes             *)
(* (routes/tests.ts), the persona service (services/personaService.ts)     *)
(* and the persona store (models/Persona.ts).                              *)
(*                                                                         *)
(* Scores are kept in tenths (0.3 is 3, 1 is 10).  Every score the scorer  *)
(* can produce is a sum of 0.2, 0.3 and 0.4 increments; the IEEE doubles   *)
(* of those sums are ordered, and tie, exactly as their tenths do          *)
(* (0.4+0.2 and 0.2+0.2+0.2 are the same double, 0.3+3*0.2 lies strictly   *)
(* between 0.8 and 1), so comparisons and the clamp are unaffected.        *)
(***************************************************************************)
EXTENDS Integers, Sequences, FiniteSets, TLC

VARIABLES
  testRuns,      \* routes/tests.ts: const testRuns = new Map()
  svcTestRuns,   \* services/personaService.ts: const testRuns = new Map()
  personas,      \* PersonaStore.personas
  nextId,        \* PersonaStore.nextId
  issued,        \* history: the identifiers PersonaStore.create has handed out, in order
  now,           \* the clock read by Date.now() / new Date()
  lastCall,      \* the request handled last
  response,      \* the answer given to it
  bus,           \* frontend EventBus: its events Map, and the closures once has made
  busLog,        \* history: what the emit calls of the EventBus invoked
  runner,        \* frontend TestSuiteRunner: its React state and pending timeouts
  input,         \* arguments of a direct call of a scoring function
  output         \* the value that call returned

vars == <<testRuns, svcTestRuns, personas, nextId, issued, now, lastCall,
          response, bus, busLog, runner, input, output>>

serverVars == <<testRuns, svcTestRuns, personas, nextId, issued, now, lastCall,
                response>>

\* the state of the frontend modules
clientVars == <<bus, busLog, runner>>

----------------------------------------------------------------------------
(* Bounds of the model *)

MaxEvents == 2        \* events held by the run store
MaxChunks == 2        \* transcript chunks held by the run store
MaxAudio == 1         \* audio chunks held by the run store
MaxSurvey == 4        \* survey responses handed to the scorer
MaxPieces == 6        \* sentences in a transcript handed to the extractors

Users == {"u1", "u2"}
\* run ids are strings the client chooses (req.body.runId, req.params.runId);
\* the second one is spelled like a user id
RunIds == {"r1", "u1"}
Missing == "undefined"          \* a request field that was not sent

----------------------------------------------------------------------------
(* Strings: String.prototype.toLowerCase, includes, trim, split, replace *)

UpperChars == "ABCDEFGHIJKLMNOPQRSTUVWXYZ"
LowerChars == "abcdefghijklmnopqrstuvwxyz"

CharAt(s, i) == SubSeq(s, i, i)

lowerOf ==
  [c \in {CharAt(UpperChars, i) : i \in 1..Len(UpperChars)} |->
     CharAt(LowerChars, CHOOSE i \in 1..Len(UpperChars) : CharAt(UpperChars, i) = c)]

toLowerCaseChar(c) == IF c \in DOMAIN lowerOf THEN lowerOf[c] ELSE c

\* character by character; the string is halved to keep the evaluation shallow
RECURSIVE toLowerCase(_)
toLowerCase(s) ==
  IF Len(s) = 0 THEN ""
  ELSE IF Len(s) = 1 THEN toLowerCaseChar(s)
  ELSE LET h == Len(s) \div 2
       IN toLowerCase(SubSeq(s, 1, h)) \o toLowerCase(SubSeq(s, h + 1, Len(s)))

includes(s, sub) ==
  \E i \in 1..(Len(s) - Len(sub) + 1) : SubSeq(s, i, i + Len(sub) - 1) = sub

WhiteSpace == {" ", "\t", "\n"}

RECURSIVE trimStart(_)
trimStart(s) ==
  IF Len(s) > 0 /\ CharAt(s, 1) \in WhiteSpace
  THEN trimStart(SubSeq(s, 2, Len(s))) ELSE s

RECURSIVE trimEnd(_)
trimEnd(s) ==
  IF Len(s) > 0 /\ CharAt(s, Len(s)) \in WhiteSpace
  THEN trimEnd(SubSeq(s, 1, Len(s) - 1)) ELSE s

trim(s) == trimEnd(trimStart(s))

\* split(/[.!?]+/): one cut per run of terminators; an empty piece before a
\* leading run and after a trailing one.
Terminators == {".", "!", "?"}

isTerminator(s, i) == i >= 1 /\ i <= Len(s) /\ CharAt(s, i) \in Terminators

\* the pieces start at 1 and behind every run of terminators
pieceStarts(s) ==
  {i \in 1..(Len(s) + 1) :
     IF i = 1 THEN TRUE ELSE isTerminator(s, i - 1) /\ ~isTerminator(s, i)}

\* a piece runs up to the next terminator or the end of the string
pieceAt(s, i) ==
  LET stops == {k \in i..Len(s) : isTerminator(s, k)}
      stop == IF stops = {} THEN Len(s) + 1
              ELSE CHOOSE k \in stops : \A k2 \in stops : k <= k2
  IN SubSeq(s, i, stop - 1)

RECURSIVE piecesFrom(_, _)
piecesFrom(s, starts) ==
  IF starts = {} THEN <<>>
  ELSE LET i == CHOOSE i \in starts : \A j \in starts : i <= j
       IN <<pieceAt(s, i)>> \o piecesFrom(s, starts \ {i})

splitSentences(s) == piecesFrom(s, pieceStarts(s))

\* replace(/^["']|["']$/g, ''): one leading and one trailing quote character
QuoteChars == {"\"", "'"}

stripQuotes(s) ==
  LET s1 == IF Len(s) > 0 /\ CharAt(s, 1) \in QuoteChars
            THEN SubSeq(s, 2, Len(s)) ELSE s
  IN IF Len(s1) > 0 /\ CharAt(s1, Len(s1)) \in QuoteChars
     THEN SubSeq(s1, 1, Len(s1) - 1) ELSE s1

\* Array.prototype.slice(0, n)
sliceFirst(seq, n) == SubSeq(seq, 1, IF Len(seq) < n THEN Len(seq) ELSE n)

\* Array.prototype.filter with the predicate s => s.trim().length > min
RECURSIVE filterLonger(_, _)
filterLonger(seq, min) ==
  IF seq = <<>> THEN <<>>
  ELSE (IF Len(trim(Head(seq))) > min THEN <<Head(seq)>> ELSE <<>>)
       \o filterLonger(Tail(seq), min)

----------------------------------------------------------------------------
(* services/personaService.ts: the scorer *)

TraitOrder == <<"Analytical", "Creative", "Social", "Practical",
                "Confident", "Cautious", "Efficient", "Thorough">>
TraitNames == {TraitOrder[i] : i \in 1..Len(TraitOrder)}

ClickThreshold == 10
HoverThreshold == 5
ScrollThreshold == 3
KeypressThreshold == 20

\* events.map(e => e.type) reduced to counts: the number of events whose
\* "type" property is t.  An event without that property counts under
\* undefined, never under t.
eventCount(events, t) ==
  Cardinality({i \in 1..Len(events) :
                 "type" \in DOMAIN events[i] /\ events[i]["type"] = t})

\* the survey rule adding its 0.2 once, however many responses match
surveyIncrementOnce(surveyResponses, q, a) ==
  IF \E i \in DOMAIN surveyResponses :
       /\ surveyResponses[i].question # "" /\ surveyResponses[i].answer # ""
       /\ includes(toLowerCase(surveyResponses[i].question), q)
       /\ includes(toLowerCase(surveyResponses[i].answer), a)
  THEN 2 ELSE 0

\* the forEach over surveyResponses, as the amount added to one trait
RECURSIVE surveyIncrement(_, _, _)
surveyIncrement(surveyResponses, q, a) ==
  IF surveyResponses = <<>> THEN 0
  ELSE LET r == Head(surveyResponses)
           hit == /\ r.question # "" /\ r.answer # ""
                  /\ includes(toLowerCase(r.question), q)
                  /\ includes(toLowerCase(r.answer), a)
       IN (IF hit THEN 2 ELSE 0) + surveyIncrement(Tail(surveyResponses), q, a)

clampNone(x) == x

clamp(x) ==
  LET lo == IF x > 0 THEN x ELSE 0 IN IF lo < 10 THEN lo ELSE 10

computeTraitScores(events, transcript, surveyResponses) ==
  LET transcriptLower == toLowerCase(transcript)
      has(w) == includes(transcriptLower, w)
      raw == [t \in TraitNames |->
        CASE t = "Practical" ->
               IF eventCount(events, "click") > ClickThreshold THEN 3 ELSE 0
          [] t = "Cautious" ->
               IF eventCount(events, "hover") > HoverThreshold THEN 2 ELSE 0
          [] t = "Thorough" ->
               IF eventCount(events, "scroll") > ScrollThreshold THEN 2 ELSE 0
          [] t = "Efficient" ->
               IF eventCount(events, "keypress") > KeypressThreshold THEN 3 ELSE 0
          [] t = "Analytical" ->
               IF has("think") \/ has("analyze") THEN 4 ELSE 0
          [] t = "Creative" ->
               (IF has("creative") \/ has("imagine") THEN 4 ELSE 0)
               + surveyIncrement(surveyResponses, "preference", "creative")
          [] t = "Social" ->
               IF has("people") \/ has("team") THEN 4 ELSE 0
          [] t = "Confident" ->
               (IF has("confident") \/ has("sure") THEN 3 ELSE 0)
               + surveyIncrement(surveyResponses, "confidence", "high")]
  IN [t \in TraitNames |-> clamp(raw[t])]

----------------------------------------------------------------------------
(* services/personaService.ts: the extractors *)

painKeywords == {"frustrated", "confused", "difficult", "hard", "problem",
                 "issue", "doesn't work", "broken", "slow", "complicated",
                 "unclear", "annoying", "bothersome", "trouble", "struggle",
                 "challenge"}

hasPainKeyword(sentence) ==
  LET lowerSentence == toLowerCase(sentence)
  IN \E keyword \in painKeywords : includes(lowerSentence, keyword)

\* the length test with both ends allowed
painLengthInclusive(cleanSentence) == Len(cleanSentence) >= 10 /\ Len(cleanSentence) <= 200

painLengthOk(cleanSentence) == Len(cleanSentence) > 10 /\ Len(cleanSentence) < 200

\* the forEach of extractPainPoints: the array painPoints before the slice
RECURSIVE collectPainPoints(_)
collectPainPoints(sentences) ==
  IF sentences = <<>> THEN <<>>
  ELSE LET sentence == Head(sentences)
           cleanSentence == stripQuotes(trim(sentence))
       IN (IF hasPainKeyword(sentence) /\ painLengthOk(cleanSentence)
           THEN <<cleanSentence>> ELSE <<>>)
          \o collectPainPoints(Tail(sentences))

sliceLast(seq, n) ==
  SubSeq(seq, IF Len(seq) < n THEN 1 ELSE Len(seq) - n + 1, Len(seq))

topPainPointsLast(painPoints) == sliceLast(painPoints, 3)

topPainPoints(painPoints) == sliceFirst(painPoints, 3)

\* the painPoints array kept between calls instead of created in each call
extractPainPointsAccumulating(transcript) ==
  topPainPoints((IF output.fn = "derive" THEN output.painPoints ELSE <<>>)
                \o collectPainPoints(filterLonger(splitSentences(transcript), 10)))

extractPainPoints(transcript) ==
  topPainPoints(collectPainPoints(
    filterLonger(splitSentences(transcript), 10)))

quoteLengthOk(cleanSentence) == Len(cleanSentence) > 20 /\ Len(cleanSentence) < 150

quoteMarkers == {"i ", "me ", "my ", "think", "feel", "like", "prefer"}

soundsLikeQuote(cleanSentence) ==
  LET lowerSentence == toLowerCase(cleanSentence)
  IN \E m \in quoteMarkers : includes(lowerSentence, m)

RECURSIVE collectQuotes(_)
collectQuotes(sentences) ==
  IF sentences = <<>> THEN <<>>
  ELSE LET cleanSentence == stripQuotes(trim(Head(sentences)))
       IN (IF quoteLengthOk(cleanSentence) /\ soundsLikeQuote(cleanSentence)
           THEN <<cleanSentence>> ELSE <<>>)
          \o collectQuotes(Tail(sentences))

topQuotesLast(quotes) == sliceLast(quotes, 5)

topQuotes(quotes) == sliceFirst(quotes, 5)

\* quotes without the sentences that hold a pain keyword (the two lists
\* de-duplicated against each other)
extractQuotesNoPain(transcript) ==
  LET quotes == collectQuotes(filterLonger(splitSentences(transcript), 15))
      kept == {i \in DOMAIN quotes : ~hasPainKeyword(quotes[i])}
  IN topQuotes([j \in 1..Cardinality(kept) |->
                  quotes[CHOOSE i \in kept : Cardinality({k \in kept : k < i}) = j - 1]])

extractQuotes(transcript) ==
  topQuotes(collectQuotes(
    filterLonger(splitSentences(transcript), 15)))

----------------------------------------------------------------------------
(* services/personaService.ts: the name generator *)

names == <<"Alex", "Jordan", "Casey", "Taylor", "Morgan", "Riley", "Quinn",
           "Avery", "Sam", "Drew", "Blake", "Cameron", "Jamie", "Parker",
           "Reese", "Dakota">>

\* Object.entries(traitScores): [trait, score] pairs in insertion order
entries(traitScores) ==
  [i \in 1..Len(TraitOrder) |-> <<TraitOrder[i], traitScores[TraitOrder[i]]>>]

compareAscending(a, b) == a[2] - b[2]

\* ([,a], [,b]) => b - a
compareScores(a, b) == b[2] - a[2]

\* Array.prototype.sort is stable: e goes behind every element it does not
\* strictly precede
RECURSIVE insertSorted(_, _)
insertSorted(sorted, e) ==
  IF sorted = <<>> THEN <<e>>
  ELSE IF compareScores(Head(sorted), e) > 0
       THEN <<e>> \o sorted
       ELSE <<Head(sorted)>> \o insertSorted(Tail(sorted), e)

RECURSIVE sortEntries(_)
sortEntries(seq) ==
  IF seq = <<>> THEN <<>>
  ELSE insertSorted(sortEntries(SubSeq(seq, 1, Len(seq) - 1)), seq[Len(seq)])

\* randomIndex stands for Math.floor(Math.random() * names.length) + 1
generatePersonaName(traitScores, randomIndex) ==
  LET dominantTraits == sliceFirst(sortEntries(entries(traitScores)), 2)
      randomName == names[randomIndex]
      traitDescriptor == IF Len(dominantTraits) >= 1
                         THEN toLowerCase(dominantTraits[1][1])
                         ELSE "balanced"
  IN randomName \o " the " \o traitDescriptor

----------------------------------------------------------------------------
(* models/Persona.ts: PersonaStore.  A store value is the pair of fields  *)
(* of the singleton: [personas, nextId].                                  *)

RECURSIVE toString(_)
toString(n) ==
  IF n < 10 THEN CharAt("0123456789", n + 1)
  ELSE toString(n \div 10) \o CharAt("0123456789", (n % 10) + 1)

newPersona(store, data, time) ==
  [id |-> toString(store.nextId),
   userId |-> data.userId, runId |-> data.runId, name |-> data.name,
   traitScores |-> data.traitScores, painPoints |-> data.painPoints,
   quotes |-> data.quotes,
   createdAt |-> time, updatedAt |-> time]

\* the identifier taken from the number of stored records, not from nextId
createByLength(store, data, time) ==
  [personas |-> Append(store.personas,
                       [newPersona(store, data, time) EXCEPT
                          !.id = toString(Len(store.personas) + 1)]),
   nextId |-> store.nextId + 1]

\* PersonaStore.create: the store after the call; the persona returned is
\* its last record
create(store, data, time) ==
  [personas |-> Append(store.personas, newPersona(store, data, time)),
   nextId |-> store.nextId + 1]

\* PersonaStore.delete: findIndex and splice; an unknown id changes nothing
delete(store, id) ==
  LET found == {i \in DOMAIN store.personas : store.personas[i].id = id}
  IN IF found = {} THEN store
     ELSE LET index == CHOOSE i \in found : \A j \in found : i <= j
          IN [store EXCEPT !.personas =
                SubSeq(@, 1, index - 1) \o SubSeq(@, index + 1, Len(@))]

\* what find and [0] give when there is no record
NoPersona == [id |-> Missing]

\* personas.filter(persona => persona.userId === userId)
RECURSIVE filterByUserId(_, _)
filterByUserId(seq, userId) ==
  IF seq = <<>> THEN <<>>
  ELSE (IF Head(seq).userId = userId THEN <<Head(seq)>> ELSE <<>>)
       \o filterByUserId(Tail(seq), userId)

\* (a, b) => new Date(b.createdAt).getTime() - new Date(a.createdAt).getTime()
compareCreatedAt(a, b) == b.createdAt - a.createdAt

\* Array.prototype.sort with that comparator: stable, so records that
\* compare equal keep their order
RECURSIVE insertByCreatedAt(_, _)
insertByCreatedAt(sorted, p) ==
  IF sorted = <<>> THEN <<p>>
  ELSE IF compareCreatedAt(Head(sorted), p) > 0 THEN <<p>> \o sorted
  ELSE <<Head(sorted)>> \o insertByCreatedAt(Tail(sorted), p)

RECURSIVE sortByCreatedAt(_)
sortByCreatedAt(seq) ==
  IF seq = <<>> THEN <<>>
  ELSE insertByCreatedAt(sortByCreatedAt(SubSeq(seq, 1, Len(seq) - 1)), seq[Len(seq)])

getByUserId(store, userId) == sortByCreatedAt(filterByUserId(store.personas, userId))

getLatestByUserId(store, userId) ==
  LET sorted == sortByCreatedAt(filterByUserId(store.personas, userId))
  IN IF sorted = <<>> THEN NoPersona ELSE sorted[1]

----------------------------------------------------------------------------
(* A JavaScript Map object: its entries ([[MapData]], read and written by *)
(* get and set) and its own enumerable properties (what Object.assign     *)
(* reads and writes).                                                     *)

EmptyMap == [data |-> <<>>, props |-> <<>>]

MapHas(m, k) == k \in DOMAIN m.data

MapGet(m, k) == m.data[k]

MapSet(m, k, v) == [m EXCEPT !.data = (k :> v) @@ m.data]

\* Object.assign(target, source): copies the own enumerable properties
ObjectAssign(target, source) ==
  [target EXCEPT !.props = source.props @@ target.props]

\* personaService.setTestRuns
setTestRuns(target, runs) == ObjectAssign(target, runs)

----------------------------------------------------------------------------
(* services/personaService.ts: buildPersona.  The value is the set of the *)
(* outcomes the call can have, one per value Math.random() can give in    *)
(* generatePersonaName: [threw, error, store, personaId] is whether the   *)
(* call threw and with what message, the persona store after it and the   *)
(* id it returned.                                                        *)

field(obj, f, default) == IF f \in DOMAIN obj THEN obj[f] ELSE default

notFound(runId) == "Test run " \o runId \o " not found"

\* lines 35-63: the run was found
assemble(testRun, store, runId, time) ==
  LET events == field(testRun, "events", <<>>)
      transcript == field(testRun, "transcript", "")
      surveyResponses == field(testRun, "surveyResponses", <<>>)
      traitScores == computeTraitScores(events, transcript, surveyResponses)
      painPoints == extractPainPoints(transcript)
      quotes == extractQuotes(transcript)
      data(name) == [userId |-> testRun.userId, runId |-> runId, name |-> name,
                     traitScores |-> traitScores, painPoints |-> painPoints,
                     quotes |-> quotes]
  IN {[threw |-> FALSE, error |-> Missing,
       store |-> create(store, data(generatePersonaName(traitScores, k)), time),
       personaId |-> toString(store.nextId)] : k \in 1..Len(names)}

buildPersonaReserveId(svcRuns, store, runId, time) ==
  IF ~MapHas(svcRuns, runId)
  THEN {[threw |-> TRUE, error |-> notFound(runId),
         store |-> [store EXCEPT !.nextId = @ + 1], personaId |-> Missing]}
  ELSE assemble(MapGet(svcRuns, runId), store, runId, time)

buildPersona(svcRuns, store, runId, time) ==
  IF ~MapHas(svcRuns, runId)
  THEN {[threw |-> TRUE, error |-> notFound(runId), store |-> store,
         personaId |-> Missing]}
  ELSE assemble(MapGet(svcRuns, runId), store, runId, time)

----------------------------------------------------------------------------
(* routes/tests.ts: the test-run handlers.  Every handler runs to its end *)
(* before the next request is taken (one thread, no await before the      *)
(* answer except on buildPersona, which has no await of its own).  A      *)
(* request that fails validation (the 400 answers) changes nothing and is *)
(* a disabled action.  The clock does not advance in this specification.  *)
(* routes/tests.ts exports the three write handlers; index.ts mounts    *)
(* finalizeTestRun and the two read handlers.                             *)

EventNames == {"click", "survey.completed"}
\* the data a survey component hands to onEvent('survey.completed', data),
\* as the JSON text of the request body
SurveyAnswers == {"{question: 'How is your confidence?', answer: 'High'}"}
EventData(eventName) ==
  IF eventName = "survey.completed" THEN SurveyAnswers ELSE {Missing}
Chunks == {"I think this is hard and I feel confused."}
AudioFiles == {"audio1"}

\* the run object the three write handlers create for an unknown run id
newTestRun(runId, userId, time) ==
  [id |-> runId, userId |-> userId, events |-> <<>>, transcript |-> "",
   audioChunks |-> <<>>, createdAt |-> time, updatedAt |-> time]

\* a new run object stored for the run id whether or not one is there
createAlways(runs, runId, userId, time) ==
  MapSet(runs, runId, newTestRun(runId, userId, time))

getOrCreate(runs, runId, userId, time) ==
  IF MapHas(runs, runId) THEN runs
  ELSE MapSet(runs, runId, newTestRun(runId, userId, time))

\* { name: eventName, timestamp: timestamp || Date.now(), data: data || {} }
newEvent(eventName, timestamp, data, time) ==
  [name |-> eventName,
   timestamp |-> IF timestamp = Missing THEN time ELSE timestamp,
   data |-> IF data = Missing THEN "{}" ELSE data]

\* the event put in front of the log (unshift) instead of at its end
pushEventFront(testRun, event, time) ==
  [testRun EXCEPT !.events = <<event>> \o @, !.updatedAt = time]

pushEvent(testRun, event, time) ==
  [testRun EXCEPT !.events = Append(@, event), !.updatedAt = time]

appendTranscript(testRun, chunk, time) ==
  [testRun EXCEPT !.transcript = @ \o chunk, !.updatedAt = time]

pushAudio(testRun, file, time) ==
  [testRun EXCEPT
     !.audioChunks = Append(@, [buffer |-> file, timestamp |-> time, size |-> Len(file)]),
     !.updatedAt = time]

RECURSIVE SumOver(_, _)
SumOver(f, keys) ==
  IF keys = {} THEN 0
  ELSE LET k == CHOOSE k \in keys : TRUE IN f[k] + SumOver(f, keys \ {k})

\* what the run store holds, for the bounds
StoredEvents(runs) ==
  SumOver([r \in DOMAIN runs.data |-> Len(runs.data[r].events)], DOMAIN runs.data)
StoredChunks(runs) ==
  LET shortest == CHOOSE n \in {Len(c) : c \in Chunks} :
                    \A c \in Chunks : n <= Len(c)
  IN SumOver([r \in DOMAIN runs.data |-> Len(runs.data[r].transcript) \div shortest],
             DOMAIN runs.data)
StoredAudio(runs) ==
  SumOver([r \in DOMAIN runs.data |-> Len(runs.data[r].audioChunks)], DOMAIN runs.data)

\* the answer sent, and what the handler wrote with console.error
Answer(op, runId, status, personaId, logged) ==
  /\ lastCall' = [op |-> op, runId |-> runId,
                  repeated |-> (lastCall.op = op /\ lastCall.runId = runId)]
  /\ response' = [status |-> status, personaId |-> personaId, logged |-> logged]

\* the handler working on a run object of its own, which it stores over the
\* one another request has stored meanwhile
logTestRunEventOwnCopy(userId, runId, eventName, data) ==
  /\ runId # Missing /\ eventName # Missing
  /\ StoredEvents(testRuns) < MaxEvents
  /\ LET event == newEvent(eventName, Missing, data, now)
     IN testRuns' = MapSet(testRuns, runId,
                           pushEvent(newTestRun(runId, userId, now), event, now))
  /\ Answer("event", runId, 200, Missing, Missing)
  /\ UNCHANGED <<svcTestRuns, personas, nextId, issued, now, input, clientVars, output>>

logTestRunEvent(userId, runId, eventName, data) ==
  /\ runId # Missing /\ eventName # Missing
  /\ StoredEvents(testRuns) < MaxEvents
  /\ LET runs1 == getOrCreate(testRuns, runId, userId, now)
         event == newEvent(eventName, Missing, data, now)
     IN testRuns' = MapSet(runs1, runId, pushEvent(MapGet(runs1, runId), event, now))
  /\ Answer("event", runId, 200, Missing, Missing)
  /\ UNCHANGED <<svcTestRuns, personas, nextId, issued, now, input, clientVars, output>>

updateTestRunTranscript(userId, runId, chunk) ==
  /\ runId # Missing /\ chunk # Missing
  /\ StoredChunks(testRuns) < MaxChunks
  /\ LET runs1 == getOrCreate(testRuns, runId, userId, now)
     IN testRuns' = MapSet(runs1, runId, appendTranscript(MapGet(runs1, runId), chunk, now))
  /\ Answer("transcript", runId, 200, Missing, Missing)
  /\ UNCHANGED <<svcTestRuns, personas, nextId, issued, now, input, clientVars, output>>

handleTestRunAudioUpload(userId, runId, file) ==
  /\ runId # Missing /\ file # Missing
  /\ StoredAudio(testRuns) < MaxAudio
  /\ LET runs1 == getOrCreate(testRuns, runId, userId, now)
     IN testRuns' = MapSet(runs1, runId, pushAudio(MapGet(runs1, runId), file, now))
  /\ Answer("audio", runId, 200, Missing, Missing)
  /\ UNCHANGED <<svcTestRuns, personas, nextId, issued, now, input, clientVars, output>>

\* testRun.finalized = true; testRun.endTime = Date.now()
markFinalized(testRun, time) ==
  [f \in DOMAIN testRun \cup {"finalized", "endTime"} |->
     IF f = "finalized" THEN TRUE ELSE IF f = "endTime" THEN time ELSE testRun[f]]

finalizeTestRun(userId, runId) ==
  /\ runId # Missing
  /\ UNCHANGED <<now, input, clientVars, output>>
  /\ IF ~MapHas(testRuns, runId)
     THEN /\ UNCHANGED <<testRuns, svcTestRuns, personas, nextId, issued>>
          /\ Answer("finalize", runId, 404, Missing, Missing)
     ELSE LET runs1 == MapSet(testRuns, runId, markFinalized(MapGet(testRuns, runId), now))
              svc1 == setTestRuns(svcTestRuns, runs1)
          IN \E built \in buildPersona(svc1, [personas |-> personas, nextId |-> nextId],
                                       runId, now) :
               /\ testRuns' = runs1
               /\ svcTestRuns' = svc1
               /\ personas' = built.store.personas
               /\ nextId' = built.store.nextId
               /\ issued' = IF built.threw THEN issued
                            ELSE Append(issued, built.personaId)
               /\ IF built.threw
                  THEN Answer("finalize", runId, 500, Missing, built.error)
                  ELSE Answer("finalize", runId, 200, built.personaId, Missing)

\* GET /api/tests/runs/current: testRuns.get(userId), 404 when undefined,
\* else the fields of the run found
getCurrentTestRun(userId) ==
  /\ lastCall' = [op |-> "current", runId |-> Missing,
                  repeated |-> (lastCall.op = "current" /\ lastCall.runId = Missing),
                  userId |-> userId]
  /\ IF ~MapHas(testRuns, userId)
     THEN response' = [status |-> 404, personaId |-> Missing, logged |-> Missing]
     ELSE LET currentRun == MapGet(testRuns, userId)
          IN response' = [status |-> 200, personaId |-> Missing, logged |-> Missing,
                          data |-> [runId |-> currentRun.id,
                                    events |-> currentRun.events,
                                    transcriptSoFar |-> currentRun.transcript,
                                    surveyResponsesSoFar |->
                                      field(currentRun, "surveyResponses", <<>>),
                                    createdAt |-> currentRun.createdAt]]
  /\ UNCHANGED <<testRuns, svcTestRuns, personas, nextId, issued, now, input, clientVars, output>>

----------------------------------------------------------------------------
(* routes/personas.ts: the persona read handlers *)

\* PersonaStore.getById: find, or undefined
getById(store, id) ==
  LET found == {i \in DOMAIN store.personas : store.personas[i].id = id}
  IN IF found = {} THEN NoPersona
     ELSE store.personas[CHOOSE i \in found : \A j \in found : i <= j]

\* the request served and the answer: status and, on success, the data
PersonaAnswer(op, userId, id, status, data) ==
  /\ lastCall' = [op |-> op, runId |-> Missing,
                  repeated |-> (lastCall.op = op /\ lastCall.runId = Missing),
                  userId |-> userId, id |-> id]
  /\ response' = IF status = 200
                 THEN [status |-> status, personaId |-> Missing, logged |-> Missing,
                       data |-> data]
                 ELSE [status |-> status, personaId |-> Missing, logged |-> Missing]
  /\ UNCHANGED <<testRuns, svcTestRuns, personas, nextId, issued, now, input, clientVars, output>>

\* the handler without its access check
getPersonaByIdUnchecked(userId, id) ==
  LET persona == getById([personas |-> personas, nextId |-> nextId], id)
  IN IF persona = NoPersona
     THEN PersonaAnswer("personaById", userId, id, 404, <<>>)
     ELSE PersonaAnswer("personaById", userId, id, 200, persona)

getPersonaById(userId, id) ==
  LET persona == getById([personas |-> personas, nextId |-> nextId], id)
  IN IF persona = NoPersona
     THEN PersonaAnswer("personaById", userId, id, 404, <<>>)
     ELSE IF persona.userId # userId
     THEN PersonaAnswer("personaById", userId, id, 403, <<>>)
     ELSE PersonaAnswer("personaById", userId, id, 200, persona)

getMyPersona(userId) ==
  LET persona == getLatestByUserId([personas |-> personas, nextId |-> nextId], userId)
  IN IF persona = NoPersona
     THEN PersonaAnswer("myPersona", userId, Missing, 404, <<>>)
     ELSE PersonaAnswer("myPersona", userId, Missing, 200,
                        [personaId |-> persona.id, name |-> persona.name,
                         traitScores |-> persona.traitScores,
                         painPoints |-> persona.painPoints,
                         quotes |-> persona.quotes, createdAt |-> persona.createdAt])

getUserPersonas(userId) ==
  LET found == getByUserId([personas |-> personas, nextId |-> nextId], userId)
  IN PersonaAnswer("userPersonas", userId, Missing, 200,
                   [i \in DOMAIN found |->
                      [id |-> found[i].id, name |-> found[i].name,
                       runId |-> found[i].runId, createdAt |-> found[i].createdAt,
                       updatedAt |-> found[i].updatedAt]])

----------------------------------------------------------------------------
(* frontend utils/eventBus.ts: EventBus.  A registered function is an     *)
(* entry [handler, closure]: closure 0 is the handler itself (on), and    *)
(* closure c > 0 is the c-th onceHandler closure that once has made round *)
(* the handler.  indexOf compares functions by identity, as the entries   *)
(* compare here.  A handler does nothing to the bus; one of them throws.  *)

BusEvents == {"spotClick", "survey.completed"}
BusHandlers == {"h1", "hThrows"}
throws(handler) == handler = "hThrows"

EmptyBus == [events |-> <<>>, closures |-> 0]

\* on: events.set(eventName, []) when absent, then push
on(b, eventName, entry) ==
  [b EXCEPT !.events =
     IF eventName \in DOMAIN @
     THEN [@ EXCEPT ![eventName] = Append(@, entry)]
     ELSE (eventName :> <<entry>>) @@ @]

\* off: indexOf and splice
off(b, eventName, entry) ==
  IF eventName \notin DOMAIN b.events THEN b
  ELSE LET handlers == b.events[eventName]
           found == {i \in DOMAIN handlers : handlers[i] = entry}
       IN IF found = {} THEN b
          ELSE LET index == CHOOSE i \in found : \A j \in found : i <= j
               IN [b EXCEPT !.events[eventName] =
                     SubSeq(handlers, 1, index - 1)
                     \o SubSeq(handlers, index + 1, Len(handlers))]

\* once: a new onceHandler closure round the handler, registered with on
once(b, eventName, handler) ==
  on([b EXCEPT !.closures = @ + 1], eventName,
     [handler |-> handler, closure |-> b.closures + 1])

\* one call of a registered function inside emit's try: the handler runs;
\* an onceHandler then calls off on itself, unless the handler threw
invoke(b, eventName, entry) ==
  IF entry.closure # 0 /\ ~throws(entry.handler) THEN off(b, eventName, entry) ELSE b

\* handlers.forEach: positions 1..len of the array as it is when each
\* position is reached (len is read once, a position past the end of the
\* array is passed over); called collects the functions invoked
RECURSIVE forEachHandler(_, _, _, _, _)
forEachHandler(b, eventName, k, len, called) ==
  IF k > len THEN [bus |-> b, called |-> called]
  ELSE IF k > Len(b.events[eventName])
  THEN forEachHandler(b, eventName, k + 1, len, called)
  ELSE LET entry == b.events[eventName][k]
       IN forEachHandler(invoke(b, eventName, entry), eventName, k + 1, len,
                         Append(called, entry))

emit(b, eventName) ==
  IF eventName \notin DOMAIN b.events THEN [bus |-> b, called |-> <<>>]
  ELSE forEachHandler(b, eventName, 1, Len(b.events[eventName]), <<>>)

getEventCount(b, eventName) ==
  IF eventName \in DOMAIN b.events THEN Len(b.events[eventName]) ELSE 0

NoEmit == [eventName |-> Missing, registered |-> <<>>, called |-> <<>>]

----------------------------------------------------------------------------
(* frontend pages/TestSuiteRunner.tsx: the suite runner component.  Every  *)
(* function of the component is made anew by each render and reads the     *)
(* currentStage of the render that made it.  A button calls the function   *)
(* of the latest render; a timeout calls what the function that set it     *)
(* could see, so a pending timeout carries the currentStage it captured.   *)
(* Timestamps of the suite events are left out.                            *)

\* the shells the runner can show, in the order of a full suite
shellSequence == <<"SpotOnClickShell", "SprintRecallShell", "DeepDiveShell">>

\* the fields of the form that submitResults posts
submitBody == {"suiteId", "data", "audio"}

\* POST /api/tests/runs answers 400 unless templateId and runId are given
responseOk(body) == "templateId" \in body /\ "runId" \in body

SubmitFailed == "Failed to submit results. Please try again."

RunnerInit ==
  [loading |-> TRUE, error |-> Missing, currentStage |-> 0,
   completedStages |-> <<>>, suiteEvents |-> <<>>, currentShell |-> "",
   isShellActive |-> FALSE, timers |-> <<>>, requests |-> 0,
   navigated |-> FALSE]

suiteEvent(name, stage, shell) == [name |-> name, stage |-> stage, shell |-> shell]

RECURSIVE stagesBefore(_)
stagesBefore(k) == IF k = 0 THEN <<>> ELSE Append(stagesBefore(k - 1), k - 1)

hydrateState(r, currentStageIndex) ==
  [r EXCEPT !.currentStage = currentStageIndex,
            !.suiteEvents = <<>>,
            !.completedStages = stagesBefore(currentStageIndex),
            !.currentShell = IF currentStageIndex < Len(shellSequence)
                             THEN shellSequence[currentStageIndex + 1] ELSE @]

submitResults(r) ==
  IF responseOk(submitBody)
  THEN [r EXCEPT !.requests = @ + 1, !.navigated = TRUE]
  ELSE [r EXCEPT !.requests = @ + 1, !.error = SubmitFailed]

completeSuite(r) ==
  submitResults([r EXCEPT !.isShellActive = FALSE,
                          !.suiteEvents = Append(@, suiteEvent("suite.complete",
                                                   Len(shellSequence), "complete"))])

\* currentStage is the value the calling closure captured
startNextStage(r, currentStage) ==
  IF currentStage >= Len(shellSequence) THEN completeSuite(r)
  ELSE LET shellName == shellSequence[currentStage + 1]
       IN [r EXCEPT !.currentShell = shellName,
                    !.isShellActive = TRUE,
                    !.suiteEvents = Append(@, suiteEvent("stage.start",
                                             currentStage + 1, shellName))]

timeout(fn, currentStage, delay) ==
  [fn |-> fn, currentStage |-> currentStage, delay |-> delay]

completeStage(r) ==
  [r EXCEPT !.isShellActive = FALSE,
            !.completedStages = Append(@, r.currentStage),
            !.suiteEvents = Append(@, suiteEvent("stage.complete", r.currentStage + 1,
                                                 shellSequence[r.currentStage + 1])),
            !.currentStage = @ + 1,
            !.timers = Append(@, timeout("startNextStage", r.currentStage, 1000))]

retryStage(r) ==
  [r EXCEPT !.isShellActive = FALSE,
            !.suiteEvents = Append(@, suiteEvent("stage.retry", r.currentStage + 1,
                                                 shellSequence[r.currentStage + 1])),
            !.timers = Append(@, timeout("setIsShellActive", r.currentStage, 500))]

skipStage(r) ==
  [r EXCEPT !.isShellActive = FALSE,
            !.suiteEvents = Append(@, suiteEvent("stage.skipped", r.currentStage + 1,
                                                 shellSequence[r.currentStage + 1])),
            !.currentStage = @ + 1,
            !.timers = Append(@, timeout("startNextStage", r.currentStage, 1000))]

\* what the component renders
renderPhase(r) ==
  IF r.loading THEN "loading"
  ELSE IF r.error # Missing THEN "error"
  ELSE IF r.currentStage = 0 /\ ~r.isShellActive THEN "intro"
  ELSE IF r.currentStage >= Len(shellSequence) THEN "completion"
  ELSE IF \A k \in 1..Len(shellSequence) : shellSequence[k] # r.currentShell
       THEN "not found"
  ELSE "shell"

removeAt(s, k) == SubSeq(s, 1, k - 1) \o SubSeq(s, k + 1, Len(s))

\* a timeout set earlier with the same or a shorter delay runs first
mayRun(timers, k) == \A j \in 1..(k - 1) : timers[j].delay > timers[k].delay

runTimeout(r, k) ==
  LET t == r.timers[k]
      rest == [r EXCEPT !.timers = removeAt(@, k)]
  IN IF t.fn = "startNextStage" THEN startNextStage(rest, t.currentStage)
     ELSE [rest EXCEPT !.isShellActive = TRUE]

ClientInit ==
  /\ bus = EmptyBus
  /\ busLog = [emits |-> 0, last |-> NoEmit, invoked |-> <<>>]
  /\ runner = RunnerInit

----------------------------------------------------------------------------
(* The server: state after the modules are loaded, and its requests *)

NoInput == [events |-> <<>>, transcript |-> "", surveyResponses |-> <<>>]
NoOutput == [fn |-> "none"]

ServerInit ==
  /\ testRuns = EmptyMap
  /\ svcTestRuns = EmptyMap
  /\ personas = <<>>
  /\ nextId = 1
  /\ issued = <<>>
  /\ now = 0
  /\ lastCall = [op |-> "none", runId |-> Missing, repeated |-> FALSE]
  /\ response = [status |-> 0, personaId |-> Missing, logged |-> Missing]

Init == ServerInit /\ ClientInit /\ input = NoInput /\ output = NoOutput

LogEvent ==
  \E u \in Users, r \in RunIds, e \in EventNames :
    \E d \in EventData(e) : logTestRunEvent(u, r, e, d)

UpdateTranscript ==
  \E u \in Users, r \in RunIds, c \in Chunks : updateTestRunTranscript(u, r, c)

UploadAudio ==
  \E u \in Users, r \in RunIds, f \in AudioFiles : handleTestRunAudioUpload(u, r, f)

Finalize ==
  \E u \in Users, r \in RunIds : finalizeTestRun(u, r)

Next == LogEvent \/ UpdateTranscript \/ UploadAudio \/ Finalize

Spec == Init /\ [][Next]_vars

----------------------------------------------------------------------------
(* The read handler of the run store next to the handlers that fill it *)

GetCurrentTestRun == \E u \in Users : getCurrentTestRun(u)

ReadNext == LogEvent \/ Finalize \/ GetCurrentTestRun

SpecRead == Init /\ [][ReadNext]_vars

----------------------------------------------------------------------------
(* The scorer and the name generator called on their own *)

Repeat(e, n) == [i \in 1..n |-> e]

ScoredEventNames == {"click", "hover", "scroll", "keypress"}

threshold(name) ==
  CASE name = "click" -> ClickThreshold
    [] name = "hover" -> HoverThreshold
    [] name = "scroll" -> ScrollThreshold
    [] name = "keypress" -> KeypressThreshold

\* an event as logTestRunEvent records it, and one with a "type" property
\* (the shape learn.md's PersonaService test passes)
loggedEvent(name) == newEvent(name, Missing, Missing, 0)
typedEvent(name) == [type |-> name, timestamp |-> 0]

\* logs of one event name: around the click threshold as logged, and at and
\* one above each threshold with a "type" property
EventLogs ==
  {<<>>} \cup
  {Repeat(loggedEvent("click"), ClickThreshold + d) : d \in {-1, 0, 1}} \cup
  {Repeat(typedEvent(n), threshold(n) + d) : n \in ScoredEventNames, d \in {0, 1}}

ScoreTranscripts ==
  {"", "I am sure my team can analyze it", "Creative people imagine"}

SurveyPool ==
  {[question |-> "How is your confidence?", answer |-> "High"],
   [question |-> "Your preference", answer |-> "Creative"],
   [question |-> "Confidence", answer |-> ""]}

SeqsUpTo(S, n) == UNION {[1..k -> S] : k \in 0..n}

ScoreInit ==
  /\ ServerInit
  /\ ClientInit
  /\ input \in [events : EventLogs, transcript : ScoreTranscripts,
                surveyResponses : SeqsUpTo(SurveyPool, MaxSurvey)]
  /\ output = NoOutput

CallComputeTraitScores ==
  /\ output.fn = "none"
  /\ output' = [fn |-> "computeTraitScores",
                value |-> computeTraitScores(input.events, input.transcript,
                                             input.surveyResponses)]
  /\ UNCHANGED <<serverVars, input, clientVars>>

CallGeneratePersonaName ==
  /\ output.fn = "computeTraitScores"
  /\ \E k \in 1..Len(names) :
       output' = [fn |-> "generatePersonaName", traitScores |-> output.value,
                  value |-> generatePersonaName(output.value, k)]
  /\ UNCHANGED <<serverVars, input, clientVars>>

ScoreNext == CallComputeTraitScores \/ CallGeneratePersonaName

SpecScore == ScoreInit /\ [][ScoreNext]_vars

----------------------------------------------------------------------------
(* The extractors called on their own *)

Pieces ==
  {"I think this is hard and I feel confused.",
   " The menu is broken!",
   " I really like my new dashboard?",
   " 'It is slow'..."}

RECURSIVE Join(_)
Join(seq) == IF seq = <<>> THEN "" ELSE Head(seq) \o Join(Tail(seq))

Transcripts == {Join(ps) : ps \in SeqsUpTo(Pieces, MaxPieces)}

\* n letters; the string is doubled to keep the evaluation shallow
RECURSIVE Pad(_)
Pad(n) ==
  IF n = 0 THEN ""
  ELSE LET half == Pad(n \div 2)
       IN half \o half \o (IF n % 2 = 1 THEN "a" ELSE "")

\* a sentence of n characters (n >= 5) that holds the pain keyword "slow"
SlowSentence(n) == "slow " \o Pad(n - 5)

\* sentences at and next to the two ends of the pain-point length test,
\* each on its own and four of them in one transcript
BoundaryLengths == {9, 10, 11, 199, 200, 201}
BoundaryTranscripts ==
  {SlowSentence(n) : n \in BoundaryLengths} \cup
  {SlowSentence(10) \o ". " \o SlowSentence(200) \o "! " \o SlowSentence(11)
     \o "? " \o SlowSentence(199) \o "."}

TextInit ==
  /\ ServerInit
  /\ ClientInit
  /\ input \in [events : {<<>>}, transcript : Transcripts \cup BoundaryTranscripts,
                surveyResponses : {<<>>}]
  /\ output = NoOutput

CallExtractPainPoints ==
  /\ output.fn = "none"
  /\ output' = [fn |-> "extractPainPoints", value |-> extractPainPoints(input.transcript)]
  /\ UNCHANGED <<serverVars, input, clientVars>>

CallExtractQuotes ==
  /\ output.fn = "none"
  /\ output' = [fn |-> "extractQuotes", value |-> extractQuotes(input.transcript)]
  /\ UNCHANGED <<serverVars, input, clientVars>>

TextNext == CallExtractPainPoints \/ CallExtractQuotes

SpecText == TextInit /\ [][TextNext]_vars

----------------------------------------------------------------------------
(* The PersonaStore called on its own: create and delete in any order,    *)
(* getLatestByUserId in between, while the clock stands or moves on (two  *)
(* calls of create can read the same millisecond).                        *)

MaxCreated == 3       \* calls of PersonaStore.create
MaxTime == 2          \* clock ticks

\* the derived data of a record, the same for every record created here
storeData(userId, runId) ==
  [userId |-> userId, runId |-> runId, name |-> "Alex the analytical",
   traitScores |-> [t \in TraitNames |-> 0], painPoints |-> <<>>, quotes |-> <<>>]

thisStore == [personas |-> personas, nextId |-> nextId]

StoreCreate ==
  /\ Len(issued) < MaxCreated
  /\ \E u \in Users, r \in RunIds :
       LET store1 == create(thisStore, storeData(u, r), now)
           persona == store1.personas[Len(store1.personas)]
       IN /\ personas' = store1.personas
          /\ nextId' = store1.nextId
          /\ issued' = Append(issued, persona.id)
          /\ output' = [fn |-> "create", value |-> persona]
  /\ UNCHANGED <<testRuns, svcTestRuns, now, lastCall, response, input, clientVars>>

StoreDelete ==
  /\ \E k \in 1..MaxCreated :
       LET store1 == delete(thisStore, toString(k))
       IN /\ personas' = store1.personas
          /\ nextId' = store1.nextId
          /\ output' = [fn |-> "delete", id |-> toString(k),
                        value |-> (store1 # thisStore)]
  /\ UNCHANGED <<testRuns, svcTestRuns, issued, now, lastCall, response, input, clientVars>>

StoreGetLatest ==
  /\ \E u \in Users :
       output' = [fn |-> "getLatestByUserId", userId |-> u,
                  value |-> getLatestByUserId(thisStore, u)]
  /\ UNCHANGED <<serverVars, input, clientVars>>

Tick ==
  /\ now < MaxTime
  /\ now' = now + 1
  /\ UNCHANGED <<testRuns, svcTestRuns, personas, nextId, issued, lastCall,
                 response, input, clientVars, output>>

StoreNext == StoreCreate \/ StoreDelete \/ StoreGetLatest \/ Tick

SpecStore == Init /\ [][StoreNext]_vars

----------------------------------------------------------------------------
(* The persona read handlers over a store that PersonaStore.create fills *)

GetPersonaById ==
  \E u \in Users, k \in 1..(MaxCreated + 1) : getPersonaById(u, toString(k))

GetMyPersona == \E u \in Users : getMyPersona(u)

GetUserPersonas == \E u \in Users : getUserPersonas(u)

PersonaReadNext == StoreCreate \/ GetPersonaById \/ GetMyPersona \/ GetUserPersonas

SpecPersonaRead == Init /\ [][PersonaReadNext]_vars

----------------------------------------------------------------------------
(* What buildPersona derives from a run, called on runs of its own: the   *)
(* scorer and the two extractors on one run (personaService.ts 36-45),    *)
(* then personaStore.create with a generated name (45-56).  The calls are *)
(* repeated while the Persona Store and the Test Run Store change.        *)

MaxCalls == 2         \* derivations from the same run

PainOnly == " The menu is broken!"
QuoteOnly == " I really like my new dashboard?"
PainAndQuote == "I think this is hard and I feel confused."

DeriveTranscripts ==
  {"", PainAndQuote, "I think this interface is confusing",
   PainOnly \o PainOnly \o PainOnly \o " " \o PainAndQuote,
   QuoteOnly \o QuoteOnly \o QuoteOnly \o QuoteOnly \o QuoteOnly \o " " \o PainAndQuote}

RunData ==
  [userId : {"u1"},
   events : {<<>>, <<typedEvent("click")>>},
   transcript : DeriveTranscripts,
   surveyResponses : {<<>>, <<[question |-> "confidence", answer |-> "high"]>>}]

\* the two ends of Math.floor(Math.random() * names.length) + 1
NameIndexes == {1, Len(names)}

DeriveInit == ServerInit /\ ClientInit /\ input \in RunData /\ output = NoOutput

derivations == IF output.fn = "derive" THEN output.call ELSE 0

CallDerive ==
  /\ derivations < MaxCalls
  /\ output' = [fn |-> "derive", call |-> derivations + 1,
                traitScores |-> computeTraitScores(input.events, input.transcript,
                                                   input.surveyResponses),
                painPoints |-> extractPainPoints(input.transcript),
                quotes |-> extractQuotes(input.transcript)]
  /\ UNCHANGED <<serverVars, input, clientVars>>

Persist ==
  /\ output.fn = "derive"
  /\ Len(issued) < MaxCreated
  /\ \E k \in NameIndexes :
       LET data == [userId |-> input.userId, runId |-> "r1",
                    name |-> generatePersonaName(output.traitScores, k),
                    traitScores |-> output.traitScores,
                    painPoints |-> output.painPoints, quotes |-> output.quotes]
           store1 == create(thisStore, data, now)
       IN /\ personas' = store1.personas
          /\ nextId' = store1.nextId
          /\ issued' = Append(issued, store1.personas[Len(store1.personas)].id)
  /\ UNCHANGED <<testRuns, svcTestRuns, now, lastCall, response, input, clientVars, output>>

DeriveNext == CallDerive \/ Persist \/ UploadAudio

SpecDerive == DeriveInit /\ [][DeriveNext]_vars

----------------------------------------------------------------------------
(* The EventBus called on its own *)

MaxHandlers == 3      \* functions registered on the bus at a time
MaxOnce == 2          \* calls of once
MaxEmits == 2         \* calls of emit

registeredCount == SumOver([e \in DOMAIN bus.events |-> Len(bus.events[e])],
                           DOMAIN bus.events)

BusOn ==
  /\ registeredCount < MaxHandlers
  /\ \E e \in BusEvents, h \in BusHandlers :
       bus' = on(bus, e, [handler |-> h, closure |-> 0])
  /\ UNCHANGED <<serverVars, busLog, runner, input, output>>

BusOnce ==
  /\ registeredCount < MaxHandlers
  /\ bus.closures < MaxOnce
  /\ \E e \in BusEvents, h \in BusHandlers : bus' = once(bus, e, h)
  /\ UNCHANGED <<serverVars, busLog, runner, input, output>>

BusOff ==
  /\ \E e \in BusEvents, h \in BusHandlers :
       bus' = off(bus, e, [handler |-> h, closure |-> 0])
  /\ UNCHANGED <<serverVars, busLog, runner, input, output>>

\* the number of times each onceHandler closure has been invoked so far
countInvoked(invoked, called) ==
  [c \in 1..bus.closures |->
     (IF c \in DOMAIN invoked THEN invoked[c] ELSE 0)
     + Cardinality({i \in DOMAIN called : called[i].closure = c})]

BusEmit ==
  /\ busLog.emits < MaxEmits
  /\ \E e \in BusEvents :
       LET done == emit(bus, e)
       IN /\ bus' = done.bus
          /\ busLog' = [emits |-> busLog.emits + 1,
                        last |-> [eventName |-> e,
                                  registered |-> IF e \in DOMAIN bus.events
                                                 THEN bus.events[e] ELSE <<>>,
                                  called |-> done.called],
                        invoked |-> countInvoked(busLog.invoked, done.called)]
  /\ UNCHANGED <<serverVars, runner, input, output>>

BusNext == BusOn \/ BusOnce \/ BusOff \/ BusEmit

SpecBus == Init /\ [][BusNext]_vars

----------------------------------------------------------------------------
(* The suite runner in the browser: the load effect, the buttons of the    *)
(* rendered phase, and the timeouts.  The user's clicks stop once          *)
(* MaxSuiteEvents events are logged or pending.                            *)

MaxSuiteEvents == 8   \* suite events logged or pending in one session

mayClick == Len(runner.suiteEvents) + Len(runner.timers) < MaxSuiteEvents

\* the effect that loads the suite: a fresh run, or a run resumed at a stage
LoadSuiteAndState ==
  /\ runner.loading
  /\ \/ runner' = [runner EXCEPT !.loading = FALSE]
     \/ \E k \in 0..Len(shellSequence) :
          runner' = [hydrateState(runner, k) EXCEPT !.loading = FALSE]
  /\ UNCHANGED <<serverVars, bus, busLog, input, output>>

\* the start button of the intro phase
RequestPermissions ==
  /\ renderPhase(runner) = "intro"
  /\ mayClick
  /\ runner' = startNextStage(runner, runner.currentStage)
  /\ UNCHANGED <<serverVars, bus, busLog, input, output>>

\* the shell reports that it is done
CompleteStage ==
  /\ renderPhase(runner) = "shell"
  /\ mayClick
  /\ runner' = completeStage(runner)
  /\ UNCHANGED <<serverVars, bus, busLog, input, output>>

RetryStage ==
  /\ renderPhase(runner) = "shell"
  /\ mayClick
  /\ runner' = retryStage(runner)
  /\ UNCHANGED <<serverVars, bus, busLog, input, output>>

SkipStage ==
  /\ renderPhase(runner) = "shell"
  /\ mayClick
  /\ runner' = skipStage(runner)
  /\ UNCHANGED <<serverVars, bus, busLog, input, output>>

RunTimeout ==
  /\ \E k \in 1..Len(runner.timers) :
       /\ mayRun(runner.timers, k)
       /\ runner' = runTimeout(runner, k)
  /\ UNCHANGED <<serverVars, bus, busLog, input, output>>

RunnerNext ==
  \/ LoadSuiteAndState
  \/ RequestPermissions
  \/ CompleteStage
  \/ RetryStage
  \/ SkipStage
  \/ RunTimeout

SpecRunner == Init /\ [][RunnerNext]_vars

\* the browser runs every pending timeout, and the load effect ends
FairSpecRunner == SpecRunner /\ WF_vars(RunTimeout) /\ WF_vars(LoadSuiteAndState)

----------------------------------------------------------------------------
(* Properties *)

Min(a, b) == IF a < b THEN a ELSE b

\* the cleaned sentences at the n smallest indices of Q, in index order
FirstOf(sentences, Q, n) ==
  [j \in 1..Min(n, Cardinality(Q)) |->
     stripQuotes(trim(sentences[CHOOSE i \in Q : Cardinality({k \in Q : k < i}) = j - 1]))]

\* C1: for every input, computeTraitScores returns a mapping over exactly
\* the 8 fixed trait names in which every score lies in [0, 1] (0..10 tenths).
C1_ScoresInUnitRange ==
  output.fn = "computeTraitScores" =>
    /\ DOMAIN output.value = TraitNames
    /\ Cardinality(DOMAIN output.value) = 8
    /\ \A t \in DOMAIN output.value : output.value[t] >= 0 /\ output.value[t] <= 10

\* C1 witness: the scorer ran on an input whose Confident increments add up
\* to more than 1 (transcript rule and four or more survey hits)
C1_Witness ==
  /\ output.fn = "computeTraitScores"
  /\ includes(toLowerCase(input.transcript), "sure")
  /\ 3 + surveyIncrement(input.surveyResponses, "confidence", "high") > 10
  /\ output.value["Confident"] = 10

\* C2 (as claimed): every finalize call for a run id that exists in the Test
\* Run Store adds exactly one record to the Persona Store, and that record's
\* runId is the finalized run id.
C2_FinalizeCreatesOnePersona ==
  [][(lastCall'.op = "finalize" /\ MapHas(testRuns, lastCall'.runId)) =>
       /\ Len(personas') = Len(personas) + 1
       /\ personas'[Len(personas')].runId = lastCall'.runId]_vars

\* C3: a buildPersona call that fails with the not-found error leaves the
\* Persona Store (records and next identifier) as it was.
C3_NotFoundKeepsStore ==
  [][(lastCall'.op = "finalize" /\ response'.logged = notFound(lastCall'.runId)) =>
       /\ personas' = personas
       /\ nextId' = nextId]_vars

\* C3 witness: buildPersona was called for a run id its run store does not
\* hold and threw the not-found error
C3_Witness ==
  /\ lastCall.op = "finalize"
  /\ ~MapHas(svcTestRuns, lastCall.runId)
  /\ response.status = 500
  /\ response.logged = notFound(lastCall.runId)

\* C4 (as claimed): on events as logTestRunEvent records them, the click rule
\* adds 0.3 to Practical exactly when more than 10 events are named 'click'.
C4_ClickRuleCountsNames ==
  (/\ output.fn = "computeTraitScores"
   /\ \A i \in DOMAIN input.events : DOMAIN input.events[i] = {"name", "timestamp", "data"})
  => LET clicks == Cardinality({i \in DOMAIN input.events : input.events[i].name = "click"})
     IN (output.value["Practical"] >= 3) <=> (clicks > 10)

\* C5 (as claimed): two buildPersona calls in a row for the same existing run
\* leave two Persona records with different identifiers and identical
\* traitScores, painPoints and quotes.
C5_RepeatedBuildGivesTwoPersonas ==
  (lastCall.op = "finalize" /\ lastCall.repeated /\ MapHas(testRuns, lastCall.runId))
  => \E i, j \in DOMAIN personas :
       /\ i # j
       /\ personas[i].id # personas[j].id
       /\ personas[i].runId = lastCall.runId /\ personas[j].runId = lastCall.runId
       /\ personas[i].traitScores = personas[j].traitScores
       /\ personas[i].painPoints = personas[j].painPoints
       /\ personas[i].quotes = personas[j].quotes

\* C6 (as claimed): finalize of an existing run persists a Persona whose
\* userId is the owning user id of that run.
C6_FinalizeCopiesOwner ==
  (lastCall.op = "finalize" /\ MapHas(testRuns, lastCall.runId))
  => \E i \in DOMAIN personas :
       /\ personas[i].id = response.personaId
       /\ personas[i].runId = lastCall.runId
       /\ personas[i].userId = MapGet(testRuns, lastCall.runId).userId

qualifiesAsPainPoint(s) ==
  /\ Len(trim(s)) > 10
  /\ hasPainKeyword(s)
  /\ painLengthOk(stripQuotes(trim(s)))

\* C8: extractPainPoints returns at most 3 sentences: the first 3 (or fewer)
\* qualifying sentences of the transcript, in transcript order.
C8_PainPointsAreFirstThree ==
  output.fn = "extractPainPoints" =>
    LET sentences == splitSentences(input.transcript)
        Q == {i \in DOMAIN sentences : qualifiesAsPainPoint(sentences[i])}
    IN /\ Len(output.value) <= 3
       /\ output.value = FirstOf(sentences, Q, 3)

\* C8 witness: more than 3 sentences qualify, not all alike, and 3 came back
C8_Witness ==
  /\ output.fn = "extractPainPoints"
  /\ Len(output.value) = 3
  /\ output.value[1] # output.value[3]
  /\ LET sentences == splitSentences(input.transcript)
         Q == {i \in DOMAIN sentences : qualifiesAsPainPoint(sentences[i])}
     IN /\ Cardinality(Q) > 3
        /\ \E i \in Q : stripQuotes(trim(sentences[i])) # output.value[3] /\ i > 3

qualifiesAsQuote(s) ==
  /\ Len(trim(s)) > 15
  /\ quoteLengthOk(stripQuotes(trim(s)))
  /\ soundsLikeQuote(stripQuotes(trim(s)))

\* C9: extractQuotes returns at most 5 sentences: the first 5 (or fewer)
\* qualifying first-person sentences of the transcript, in transcript order.
C9_QuotesAreFirstFive ==
  output.fn = "extractQuotes" =>
    LET sentences == splitSentences(input.transcript)
        Q == {i \in DOMAIN sentences : qualifiesAsQuote(sentences[i])}
    IN /\ Len(output.value) <= 5
       /\ output.value = FirstOf(sentences, Q, 5)

\* C9 witness: more than 5 sentences qualify, not all alike, and 5 came back
C9_Witness ==
  /\ output.fn = "extractQuotes"
  /\ Len(output.value) = 5
  /\ output.value[1] # output.value[5]
  /\ LET sentences == splitSentences(input.transcript)
         Q == {i \in DOMAIN sentences : qualifiesAsQuote(sentences[i])}
     IN /\ Cardinality(Q) > 5
        /\ \E i \in Q : stripQuotes(trim(sentences[i])) # output.value[5] /\ i > 5

traitLower == <<"analytical", "creative", "social", "practical",
                "confident", "cautious", "efficient", "thorough">>

\* C10: for scores the scorer produced, generatePersonaName returns
\* "<first name> the <trait>" with <trait> the lower-cased name of the first
\* trait, in insertion order, that has the maximum score; all-zero scores
\* give "analytical" and "balanced" is never produced.
C10_NameIsTopTrait ==
  output.fn = "generatePersonaName" =>
    LET sc == output.traitScores
    IN /\ \E i \in DOMAIN names, j \in DOMAIN TraitOrder :
            /\ output.value = names[i] \o " the " \o traitLower[j]
            /\ \A k \in DOMAIN TraitOrder : sc[TraitOrder[k]] <= sc[TraitOrder[j]]
            /\ \A k \in 1..(j - 1) : sc[TraitOrder[k]] < sc[TraitOrder[j]]
       /\ (\A t \in TraitNames : sc[t] = 0) =>
            \E i \in DOMAIN names : output.value = names[i] \o " the analytical"
       /\ \A i \in DOMAIN names : output.value # names[i] \o " the balanced"

\* C10 witness: two traits share a maximum above 0, neither is the first
\* trait, and the name carries the earlier of the two
C10_Witness ==
  /\ output.fn = "generatePersonaName"
  /\ output.traitScores["Creative"] = 4
  /\ output.traitScores["Social"] = 4
  /\ \A t \in TraitNames : output.traitScores[t] <= 4
  /\ output.traitScores["Analytical"] = 0
  /\ output.value = "Quinn the creative"

\* the responses of the scorer's input that match the Confident survey rule,
\* and whether its transcript matches the Confident transcript rule
confidentResponses ==
  {i \in DOMAIN input.surveyResponses :
     /\ input.surveyResponses[i].question # ""
     /\ input.surveyResponses[i].answer # ""
     /\ includes(toLowerCase(input.surveyResponses[i].question), "confidence")
     /\ includes(toLowerCase(input.surveyResponses[i].answer), "high")}

confidentTranscript ==
  \/ includes(toLowerCase(input.transcript), "confident")
  \/ includes(toLowerCase(input.transcript), "sure")

\* C11 (as claimed): the Confident score never exceeds 0.5, for any
\* transcript and any list of survey responses.
C11_ConfidentAtMostHalf ==
  output.fn = "computeTraitScores" => output.value["Confident"] <= 5

\* C11 (amended): the Confident score is min(1, 0.3 t + 0.2 k), with t = 1
\* when the transcript contains "confident" or "sure" (else 0) and k the
\* number of survey responses whose question contains "confidence" and whose
\* answer contains "high"; it stays within 0.5 when at most one response
\* matches.
C11_ConfidentIsClampedSum ==
  output.fn = "computeTraitScores" =>
    LET k == Cardinality(confidentResponses)
        t == IF confidentTranscript THEN 1 ELSE 0
    IN /\ output.value["Confident"] = Min(10, 3 * t + 2 * k)
       /\ k <= 1 => output.value["Confident"] <= 5

\* C11 witness: the transcript rule and two matching survey responses gave a
\* Confident score of 0.7
C11_Witness ==
  /\ output.fn = "computeTraitScores"
  /\ confidentTranscript
  /\ Cardinality(confidentResponses) = 2
  /\ output.value["Confident"] = 7

\* C13 (as claimed): when finalize has read a run, every survey answer that
\* was recorded for that run id (the data of a 'survey.completed' event) is
\* in the run's surveyResponses sequence.
C13_SurveyAnswersReachFinalize ==
  (lastCall.op = "finalize" /\ MapHas(testRuns, lastCall.runId)) =>
    LET testRun == MapGet(testRuns, lastCall.runId)
        surveyResponses == field(testRun, "surveyResponses", <<>>)
    IN \A i \in DOMAIN testRun.events :
         testRun.events[i].name = "survey.completed" =>
           \E j \in DOMAIN surveyResponses : surveyResponses[j] = testRun.events[i].data

\* a is a prefix of b (sequences or strings)
isPrefix(a, b) == Len(a) <= Len(b) /\ SubSeq(b, 1, Len(a)) = a

\* the events and the transcript a run id holds, nothing for an unknown id
eventsOf(runs, runId) == IF MapHas(runs, runId) THEN MapGet(runs, runId).events ELSE <<>>
transcriptOf(runs, runId) == IF MapHas(runs, runId) THEN MapGet(runs, runId).transcript ELSE ""

\* C14: writes to a TestRun only append.  An event-log call leaves the run's
\* previous events as a prefix and adds exactly one event at the end; a
\* transcript call leaves the previous transcript as a prefix; and no call of
\* any handler removes or reorders events or shortens a transcript of any run.
C14_WritesOnlyAppend ==
  [][/\ \A r \in RunIds :
          /\ isPrefix(eventsOf(testRuns, r), eventsOf(testRuns', r))
          /\ isPrefix(transcriptOf(testRuns, r), transcriptOf(testRuns', r))
     /\ lastCall'.op = "event" =>
          /\ Len(eventsOf(testRuns', lastCall'.runId))
               = Len(eventsOf(testRuns, lastCall'.runId)) + 1
          /\ \A r \in RunIds \ {lastCall'.runId} :
               eventsOf(testRuns', r) = eventsOf(testRuns, r)
     /\ lastCall'.op = "transcript" =>
          \E c \in Chunks :
            transcriptOf(testRuns', lastCall'.runId)
              = transcriptOf(testRuns, lastCall'.runId) \o c]_vars

\* C14 witness: an event-log call has just added a second, different event
\* to a run that also holds transcript text
C14_Witness ==
  /\ lastCall.op = "event"
  /\ Len(eventsOf(testRuns, lastCall.runId)) = 2
  /\ eventsOf(testRuns, lastCall.runId)[1].name = "click"
  /\ eventsOf(testRuns, lastCall.runId)[2].name = "survey.completed"
  /\ transcriptOf(testRuns, lastCall.runId) # ""

\* the run id is in the Test Run Store with its finalized flag set
isFinalized(runs, runId) ==
  MapHas(runs, runId) /\ field(MapGet(runs, runId), "finalized", FALSE)

\* C15: in every step of every handler a run that is in the Test Run Store
\* stays in it, and a run that is finalized stays finalized.
C15_FinalizedIsMonotonic ==
  [][\A r \in RunIds :
       /\ MapHas(testRuns, r) => MapHas(testRuns', r)
       /\ isFinalized(testRuns, r) => isFinalized(testRuns', r)]_vars

\* C15 witness: a write handler has just served a run that was finalized
\* before, and the run is still finalized
C15_Witness ==
  /\ lastCall.op \in {"event", "transcript", "audio"}
  /\ isFinalized(testRuns, lastCall.runId)
  /\ MapGet(testRuns, lastCall.runId).events # <<>>

\* C16 (as claimed): an event-log or transcript call for a run id that is
\* already finalized leaves that run's events and transcript as they were.
C16_FinalizeClosesRun ==
  [][(lastCall'.op \in {"event", "transcript"} /\ isFinalized(testRuns, lastCall'.runId)) =>
       /\ eventsOf(testRuns', lastCall'.runId) = eventsOf(testRuns, lastCall'.runId)
       /\ transcriptOf(testRuns', lastCall'.runId)
            = transcriptOf(testRuns, lastCall'.runId)]_vars

\* the Personas of the store that were built from the run id
personasOfRun(runId) == {i \in DOMAIN personas : personas[i].runId = runId}

\* C17 (as claimed): a Persona is produced once per finalized test run: in
\* every reachable state at most one Persona of the store has a given run
\* id, and a finalized run has its one Persona, however often finalize was
\* called for it.
C17_OnePersonaPerFinalizedRun ==
  \A r \in RunIds :
    /\ Cardinality(personasOfRun(r)) <= 1
    /\ isFinalized(testRuns, r) => Cardinality(personasOfRun(r)) = 1

\* decimal numerals of the identifiers the bounds allow
Numerals == <<"1", "2", "3", "4", "5", "6", "7", "8", "9">>

\* C18: the k-th Persona ever created got identifier k as a string, the
\* Personas in the store have pairwise different identifiers, all of them
\* handed out by create, and no identifier was handed out twice, after any
\* sequence of create and delete calls.
C18_IdsFreshAndSequential ==
  /\ \A k \in DOMAIN issued : issued[k] = Numerals[k]
  /\ \A i, j \in DOMAIN issued : i # j => issued[i] # issued[j]
  /\ \A i, j \in DOMAIN personas : i # j => personas[i].id # personas[j].id
  /\ \A i \in DOMAIN personas : \E k \in DOMAIN issued : personas[i].id = issued[k]
  /\ output.fn = "create" => output.value.id = Numerals[Len(issued)]

\* C18 witness: create has just run after a delete that removed the first
\* record, and handed out the third identifier
C18_Witness ==
  /\ output.fn = "create"
  /\ Len(issued) = 3
  /\ Len(personas) = 2
  /\ personas[1].id = "2"
  /\ personas[2].id = "3"

\* the positions in the store, which is in creation order, of the Personas a
\* user owns
ownedBy(userId) == {i \in DOMAIN personas : personas[i].userId = userId}

\* C19 (as claimed): getLatestByUserId(u) returns undefined exactly when u
\* owns no Persona, and otherwise the Persona of u that was created last,
\* also when Personas of u have the same creation timestamp.
C19_LatestIsLastCreated ==
  output.fn = "getLatestByUserId" =>
    LET own == ownedBy(output.userId)
    IN /\ (output.value = NoPersona) <=> (own = {})
       /\ own # {} =>
            output.value = personas[CHOOSE i \in own : \A j \in own : j <= i]

\* the sentence holds a pain keyword and its trimmed, quote-stripped length
\* lies in lo..hi
keptWithin(s, lo, hi) ==
  /\ hasPainKeyword(s)
  /\ Len(stripQuotes(trim(s))) >= lo
  /\ Len(stripQuotes(trim(s))) <= hi

\* C20 (as claimed): extractPainPoints keeps a keyword-matching sentence
\* exactly when its trimmed, quote-stripped length is between 10 and 200
\* characters, both included (the first three such sentences are returned).
C20_LengthBetween10And200 ==
  output.fn = "extractPainPoints" =>
    LET sentences == splitSentences(input.transcript)
        Q == {i \in DOMAIN sentences : keptWithin(sentences[i], 10, 200)}
    IN output.value = FirstOf(sentences, Q, 3)

\* C20 (amended): extractPainPoints keeps a keyword-matching sentence
\* exactly when its trimmed, quote-stripped length is more than 10 and less
\* than 200 characters, that is between 11 and 199; sentences of exactly 10
\* or exactly 200 characters are discarded.
C20_LengthBetween11And199 ==
  output.fn = "extractPainPoints" =>
    LET sentences == splitSentences(input.transcript)
        Q == {i \in DOMAIN sentences : keptWithin(sentences[i], 11, 199)}
    IN output.value = FirstOf(sentences, Q, 3)

\* C20 witness: of four keyword-matching sentences of 10, 200, 11 and 199
\* characters, the ones of 11 and 199 came back
C20_Witness ==
  /\ output.fn = "extractPainPoints"
  /\ LET sentences == splitSentences(input.transcript)
     IN /\ \A n \in {10, 11, 199, 200} :
             \E i \in DOMAIN sentences :
               hasPainKeyword(sentences[i]) /\ Len(stripQuotes(trim(sentences[i]))) = n
  /\ Len(output.value) = 2
  /\ Len(output.value[1]) = 11
  /\ Len(output.value[2]) = 199

Range(seq) == {seq[i] : i \in DOMAIN seq}

\* the sentence holds a pain keyword, its cleaned text holds a first-person
\* marker, and its cleaned length is within both extractors' limits (more
\* than 20 for a quote, which is more than 10; less than 150, which is less
\* than 200)
painAndQuote(s) ==
  LET cleanSentence == stripQuotes(trim(s))
  IN /\ hasPainKeyword(s)
     /\ \E m \in quoteMarkers : includes(toLowerCase(cleanSentence), m)
     /\ Len(cleanSentence) > 20
     /\ Len(cleanSentence) < 150

\* the sentences of the derived run's transcript, and the positions of those
\* that qualify for both lists
derivedSentences == splitSentences(input.transcript)
bothAt == {i \in DOMAIN derivedSentences : painAndQuote(derivedSentences[i])}

\* the scorer's part of C21: the example transcript scores Analytical >= 0.4
\* and its sentence is in both lists
exampleInBoth ==
  input.transcript = PainAndQuote =>
    /\ output.traitScores["Analytical"] >= 4
    /\ "I think this is hard and I feel confused" \in Range(output.painPoints)
    /\ "I think this is hard and I feel confused" \in Range(output.quotes)

\* C21 (as claimed): every transcript sentence that qualifies for both lists
\* is returned in the pain points and in the quotes, and the example
\* transcript scores Analytical >= 0.4 with its sentence in both lists.
C21_SentenceInBothLists ==
  output.fn = "derive" =>
    /\ \A i \in bothAt :
         /\ stripQuotes(trim(derivedSentences[i])) \in Range(output.painPoints)
         /\ stripQuotes(trim(derivedSentences[i])) \in Range(output.quotes)
    /\ exampleInBoth

\* C21 (amended): a sentence that qualifies for both lists is returned in
\* the pain points when fewer than 3 pain-point sentences precede it, and
\* in the quotes when fewer than 5 quote sentences precede it; a sentence in
\* one list is never left out of the other for being there.  The example
\* transcript scores Analytical >= 0.4 with its sentence in both lists.
C21_SentenceInBothListsUnlessCut ==
  output.fn = "derive" =>
    /\ \A i \in bothAt :
         LET cleanSentence == stripQuotes(trim(derivedSentences[i]))
             painBefore == {j \in 1..(i - 1) : qualifiesAsPainPoint(derivedSentences[j])}
             quotesBefore == {j \in 1..(i - 1) : qualifiesAsQuote(derivedSentences[j])}
         IN /\ Cardinality(painBefore) < 3 => cleanSentence \in Range(output.painPoints)
            /\ Cardinality(quotesBefore) < 5 => cleanSentence \in Range(output.quotes)
    /\ exampleInBoth

\* C21 witness: the example transcript was derived from and its one sentence
\* is the only pain point and the only quote
C21_Witness ==
  /\ output.fn = "derive"
  /\ input.transcript = PainAndQuote
  /\ bothAt = {1}
  /\ output.painPoints = <<"I think this is hard and I feel confused">>
  /\ output.quotes = output.painPoints

C23_ConfusingInterfaceIsPainPoint ==
  (output.fn = "derive" /\ input.transcript = "I think this interface is confusing") =>
    /\ output.traitScores["Analytical"] > 0
    /\ Len(output.painPoints) > 0
    /\ \A i \in DOMAIN personas : personas[i].name # ""

\* the ids of the runs a user owns that are not finalized
openRunsOf(userId) ==
  {r \in DOMAIN testRuns.data :
     testRuns.data[r].userId = userId /\ ~isFinalized(testRuns, r)}

\* C24 (as claimed): getCurrentTestRun answers with a run of the
\* authenticated user that is not finalized whenever the user owns one,
\* never with a finalized run or another user's run, and with 404 only when
\* the user owns no run that is not finalized.
C24_CurrentRunIsOwnOpenRun ==
  lastCall.op = "current" =>
    /\ openRunsOf(lastCall.userId) # {} =>
         response.status = 200 /\ response.data.runId \in openRunsOf(lastCall.userId)
    /\ response.status = 200 => response.data.runId \in openRunsOf(lastCall.userId)
    /\ response.status = 404 => openRunsOf(lastCall.userId) = {}

\* the Persona of the store with the identifier is owned by the user
ownsPersona(userId, id) ==
  \E i \in DOMAIN personas : personas[i].id = id /\ personas[i].userId = userId

\* what a persona read handler may answer to the call, given the store
personaAnswerOk(call, answer) ==
  /\ call.op = "personaById" =>
       LET found == {i \in DOMAIN personas : personas[i].id = call.id}
       IN /\ (answer.status = 404) <=> (found = {})
          /\ (answer.status = 403) <=> (found # {} /\ ~ownsPersona(call.userId, call.id))
          /\ (answer.status = 200) <=> ownsPersona(call.userId, call.id)
          /\ answer.status = 200 =>
               /\ answer.data \in Range(personas)
               /\ answer.data.id = call.id
               /\ answer.data.userId = call.userId
          /\ answer.status # 200 => "data" \notin DOMAIN answer
  /\ call.op = "myPersona" =>
       /\ answer.status \in {200, 404}
       /\ answer.status = 200 => ownsPersona(call.userId, answer.data.personaId)
       /\ answer.status = 404 => "data" \notin DOMAIN answer
  /\ call.op = "userPersonas" =>
       \A j \in DOMAIN answer.data : ownsPersona(call.userId, answer.data[j].id)

\* C25: getPersonaById answers 404 exactly for an identifier that is not in
\* the store, 403 exactly for a Persona of another user, and the Persona
\* exactly when the authenticated user owns it; what getMyPersona and
\* getUserPersonas answer with are Personas of the authenticated user only.
\* (Stated on the step of the handler: the store it read is the store it
\* leaves.)
C25_ReadsDiscloseOwnPersonasOnly ==
  [][personas' = personas => personaAnswerOk(lastCall', response')]_vars

\* C25 witness: a user asked for a stored Persona of another user by its
\* identifier and was refused
C25_Witness ==
  /\ lastCall.op = "personaById"
  /\ \E i \in DOMAIN personas :
       personas[i].id = lastCall.id /\ personas[i].userId # lastCall.userId
  /\ ownedBy(lastCall.userId) # {}
  /\ response.status = 403

\* C26 (as claimed): every run whose finalized flag is set has a Persona in
\* the store with its run id, and a finalize call that answered with a
\* failure has left the run not finalized.
C26_FinalizedRunHasPersona ==
  /\ \A r \in RunIds : isFinalized(testRuns, r) => personasOfRun(r) # {}
  /\ (lastCall.op = "finalize" /\ response.status = 500) =>
       ~isFinalized(testRuns, lastCall.runId)

\* C27: the server takes a request when the handler of the one before has
\* returned (logTestRunEvent has no await), so two event-log requests for
\* one run id that are in flight together are two handler steps in a row.
\* The second step keeps the run record the first one left (same owner,
\* same creation time, no other run id added), keeps the first one's event
\* and adds its own event after it.
C27_ConcurrentEventsBothKept ==
  [][(lastCall.op = "event" /\ lastCall'.op = "event"
      /\ lastCall'.runId = lastCall.runId) =>
       LET before == MapGet(testRuns, lastCall.runId)
           after == MapGet(testRuns', lastCall.runId)
       IN /\ DOMAIN testRuns'.data = DOMAIN testRuns.data
          /\ after.userId = before.userId
          /\ after.createdAt = before.createdAt
          /\ Len(before.events) >= 1
          /\ Len(after.events) = Len(before.events) + 1
          /\ SubSeq(after.events, 1, Len(before.events)) = before.events
          /\ after.events[Len(after.events)].name \in EventNames]_vars

\* C27 witness: two event-log handlers ran in a row for a run id that did
\* not exist before them, and the run holds their two different events
C27_Witness ==
  /\ lastCall.op = "event"
  /\ lastCall.repeated
  /\ Len(eventsOf(testRuns, lastCall.runId)) = 2
  /\ eventsOf(testRuns, lastCall.runId)[1].name = "survey.completed"
  /\ eventsOf(testRuns, lastCall.runId)[2].name = "click"

\* the onceHandler closure is registered for some event
closureRegistered(c) ==
  \E e \in DOMAIN bus.events :
    \E i \in DOMAIN bus.events[e] : bus.events[e][i].closure = c

\* C28 (as claimed): a handler registered with once is invoked at most once
\* over any sequence of emit calls, and after its first invocation it is no
\* longer registered, also when it throws.
C28_OnceInvokedAtMostOnce ==
  \A c \in DOMAIN busLog.invoked :
    /\ busLog.invoked[c] <= 1
    /\ busLog.invoked[c] >= 1 => ~closureRegistered(c)

\* C29 (as claimed): an emit call invokes every function that was
\* registered for the event when it was called, once each and in
\* registration order.
C29_EmitInvokesAllRegistered ==
  busLog.last.called = busLog.last.registered

----------------------------------------------------------------------------
(* C30: the suite runner executes the shells of a suite in sequence: the   *)
(* shell of every stage.start event is the one that follows the stage      *)
(* completed or skipped last before it, shellSequence[i+1] after stage i.  *)

stageLeft(e) == e.name \in {"stage.complete", "stage.skipped"}

\* the position of the last stage completed or skipped before position j, or 0
lastLeftBefore(events, j) ==
  LET left == {k \in 1..(j - 1) : stageLeft(events[k])}
  IN IF left = {} THEN 0 ELSE CHOOSE k \in left : \A m \in left : m <= k

C30_NextShellStartedIsNext ==
  \A j \in 1..Len(runner.suiteEvents) :
    LET events == runner.suiteEvents
        k == lastLeftBefore(events, j)
    IN (events[j].name = "stage.start" /\ k > 0) =>
         /\ events[k].stage < Len(shellSequence)
         /\ events[j].shell = shellSequence[events[k].stage + 1]

(* C30, second half: once the last stage is completed or skipped, so that  *)
(* currentStage is shellSequence.length, completeSuite is eventually       *)
(* called and the results are posted.                                      *)

lastStageLeft ==
  /\ runner.currentStage = Len(shellSequence)
  /\ \E k \in 1..Len(runner.suiteEvents) :
       stageLeft(runner.suiteEvents[k])
       /\ runner.suiteEvents[k].stage = Len(shellSequence)

suiteCompleted ==
  /\ \E k \in 1..Len(runner.suiteEvents) : runner.suiteEvents[k].name = "suite.complete"
  /\ runner.requests > 0

C30_LastStageLeadsToCompleteSuite == lastStageLeft ~> suiteCompleted

\* completeSuite is never called: no closure that reaches startNextStage
\* holds a currentStage as large as shellSequence.length
C30_CompleteSuiteNeverCalled == runner.requests = 0

====
